---------------------------- MODULE Spec2Model ----------------------------
(***************************************************************************)
(* Model of sol_viewer.py: the .sol tokenizer (_parse_sol_content_threaded),*)
(* its timeout harness (parse_sol_content_with_timeout), the credential    *)
(* extraction loop of main() and the frames of its main loop.              *)
(*                                                                         *)
(* Text (Python str) and raw data (Python bytes) are both sequences of     *)
(* numbers: code points for text, byte values for data.                    *)
(***************************************************************************)
EXTENDS Integers, Sequences, FiniteSets, TLC

(***************************************************************************)
(* Bounds of the model.                                                    *)
(***************************************************************************)
\* longest input buffer of the tokenizer specification
MaxLen == 5
\* number of invocations of parse_sol_content_with_timeout in a run
MaxInvocations == 2
\* number of label occurrences in an input of the extraction specification
MaxOcc == 2
\* number of files in the file list of the window specification
NumFiles == 15
\* number of clicks of the window specification that select another file
MaxSelections == 1

(***************************************************************************)
(* Program constants.                                                      *)
(***************************************************************************)
\* max_bytes_to_process=1024*100
DefaultMaxBytes == 102400
\* SCREEN_HEIGHT
SCREEN_HEIGHT == 400
\* FILE_LIST_WIDTH
FILE_LIST_WIDTH == 200
\* PADDING
PADDING == 15
\* LINE_HEIGHT = FONT_SIZE + 8
LINE_HEIGHT == 26
\* SCROLLBAR_WIDTH
SCROLLBAR_WIDTH == 12
\* SCROLLBAR_PADDING
SCROLLBAR_PADDING == 5
\* LABEL_WIDTH
LABEL_WIDTH == 280
\* button_width and button_height of main
button_width == 100
button_height == 30
\* the least height of the scrollbar thumb: max(20, ...)
MinThumbHeight == 20
\* the rows one step of the mouse wheel scrolls: LINE_HEIGHT * 3
WheelRows == 3
\* timeout=5.0, in tenths of a second
DefaultTimeout == 50
\* the {2,} of printable_chars_pattern
MinRun == 2

\* byte values of the tokenizer specification: NUL, tab, "A", 0xff
Alphabet == {0, 9, 65, 255}
\* byte caps of the tokenizer specification
Caps == (0 .. MaxLen) \cup {DefaultMaxBytes}
\* the timeout argument: a number n of tenths of a second
Seconds(n) == [none |-> FALSE, tenths |-> n]
\* the timeout argument None: q.get waits without limit
NoTimeout == [none |-> TRUE, tenths |-> 0]
\* timeouts of the harness specification: 5.0, -1.0 and None
Timeouts == {Seconds(DefaultTimeout), Seconds(-10), NoTimeout}

Invocations == 1 .. MaxInvocations

(***************************************************************************)
(* Sequences.                                                              *)
(***************************************************************************)
BSeq(S, n) == UNION {[1 .. m -> S] : m \in 0 .. n}

Min(a, b) == IF a < b THEN a ELSE b

Max(a, b) == IF a > b THEN a ELSE b

\* d[from:to] of Python, 0-based, to exclusive
Slice(d, from, to) == SubSeq(d, from + 1, to)

IsPrefix(s, t) == Len(s) <= Len(t) /\ SubSeq(t, 1, Len(s)) = s

RECURSIVE Flatten(_)
Flatten(ss) == IF ss = <<>> THEN <<>> ELSE Head(ss) \o Flatten(Tail(ss))

(***************************************************************************)
(* Natural numbers of any size, as sequences of limbs, least significant   *)
(* first, without leading zero limbs; <<>> is 0.                           *)
(***************************************************************************)
Pow2(n) == 2 ^ n

RECURSIVE SmallBitLen(_)
SmallBitLen(n) == IF n = 0 THEN 0 ELSE 1 + SmallBitLen(n \div 2)

\* the product of two limbs stays below 2^31
LimbBase == Pow2(15)

LimbBits == SmallBitLen(LimbBase) - 1

RECURSIVE BigTrim(_)
BigTrim(a) ==
    IF a = <<>> THEN a
    ELSE IF a[Len(a)] = 0 THEN BigTrim(SubSeq(a, 1, Len(a) - 1))
    ELSE a

RECURSIVE BigOf(_)
BigOf(n) == IF n = 0 THEN <<>> ELSE <<n % LimbBase>> \o BigOf(n \div LimbBase)

RECURSIVE BigToInt(_)
BigToInt(a) == IF a = <<>> THEN 0 ELSE a[1] + LimbBase * BigToInt(Tail(a))

Limb(a, i) == IF i <= Len(a) THEN a[i] ELSE 0

RECURSIVE BigAddFrom(_, _, _, _)
BigAddFrom(a, b, i, carry) ==
    IF i > Len(a) /\ i > Len(b)
    THEN IF carry = 0 THEN <<>> ELSE <<carry>>
    ELSE LET t == Limb(a, i) + Limb(b, i) + carry
         IN  <<t % LimbBase>> \o BigAddFrom(a, b, i + 1, t \div LimbBase)

BigAdd(a, b) == BigAddFrom(a, b, 1, 0)

\* a - b for a >= b
RECURSIVE BigSubFrom(_, _, _, _)
BigSubFrom(a, b, i, borrow) ==
    IF i > Len(a) THEN <<>>
    ELSE LET t == a[i] - Limb(b, i) - borrow
         IN  IF t < 0
             THEN <<t + LimbBase>> \o BigSubFrom(a, b, i + 1, 1)
             ELSE <<t>> \o BigSubFrom(a, b, i + 1, 0)

BigSub(a, b) == BigTrim(BigSubFrom(a, b, 1, 0))

\* -1, 0 or 1 as a is less than, equal to or greater than b
RECURSIVE BigCmpFrom(_, _, _)
BigCmpFrom(a, b, i) ==
    IF i = 0 THEN 0
    ELSE IF a[i] < b[i] THEN -1
    ELSE IF a[i] > b[i] THEN 1
    ELSE BigCmpFrom(a, b, i - 1)

BigCmp(a, b) ==
    IF Len(a) < Len(b) THEN -1
    ELSE IF Len(a) > Len(b) THEN 1
    ELSE BigCmpFrom(a, b, Len(a))

\* a * k for 0 <= k <= LimbBase
RECURSIVE BigMulFrom(_, _, _, _)
BigMulFrom(a, k, i, carry) ==
    IF i > Len(a)
    THEN IF carry = 0 THEN <<>> ELSE <<carry>>
    ELSE LET t == a[i] * k + carry
         IN  <<t % LimbBase>> \o BigMulFrom(a, k, i + 1, t \div LimbBase)

BigMulSmall(a, k) == BigTrim(BigMulFrom(a, k, 1, 0))

\* quotient q and remainder r of a by d, for 0 < d <= LimbBase
RECURSIVE BigDivFrom(_, _, _, _)
BigDivFrom(a, d, i, rem) ==
    IF i = 0 THEN [q |-> <<>>, r |-> rem]
    ELSE LET rest == BigDivFrom(a, d, i - 1, (rem * LimbBase + a[i]) % d)
         IN  [q |-> Append(rest.q, (rem * LimbBase + a[i]) \div d), r |-> rest.r]

BigDivTrim(x) == [q |-> BigTrim(x.q), r |-> x.r]

BigDivSmall(a, d) == BigDivTrim(BigDivFrom(a, d, Len(a), 0))

\* a * 2^n
BigShl(a, n) ==
    IF a = <<>> \/ n = 0 THEN a
    ELSE IF n % LimbBits = 0 THEN [i \in 1 .. (n \div LimbBits) |-> 0] \o a
    ELSE [i \in 1 .. (n \div LimbBits) |-> 0] \o BigMulSmall(a, Pow2(n % LimbBits))

BigShrLost(a, limbs, x) ==
    [q |-> x.q, lost |-> x.r # 0 \/ \E i \in 1 .. limbs : a[i] # 0]

\* the quotient q of a by 2^n, and whether a bit was lost
BigShr(a, n) ==
    IF n \div LimbBits >= Len(a) THEN [q |-> <<>>, lost |-> a # <<>>]
    ELSE IF n % LimbBits = 0
    THEN [q |-> SubSeq(a, (n \div LimbBits) + 1, Len(a)),
          lost |-> \E i \in 1 .. (n \div LimbBits) : a[i] # 0]
    ELSE BigShrLost(a, n \div LimbBits,
                    BigDivSmall(SubSeq(a, (n \div LimbBits) + 1, Len(a)),
                                Pow2(n % LimbBits)))

\* the number of bits of a limb, computed once
LimbBitLen == [n \in 0 .. LimbBase |-> SmallBitLen(n)]

\* the number of bits of a
BitLen(a) ==
    IF a = <<>> THEN 0 ELSE LimbBits * (Len(a) - 1) + LimbBitLen[a[Len(a)]]

\* bit n of a, counted from 0
BigBit(a, n) == (Limb(a, (n \div LimbBits) + 1) \div Pow2(n % LimbBits)) % 2

\* whether a bit of a below bit n is set
BigBelow(a, n) ==
    \/ Limb(a, (n \div LimbBits) + 1) % Pow2(n % LimbBits) # 0
    \/ \E i \in 1 .. Min(n \div LimbBits, Len(a)) : a[i] # 0

(***************************************************************************)
(* Python float: IEEE 754 binary64 with round-to-nearest, ties to even.    *)
(* A float is its sign and m * 2^e with m of MantissaBits bits, or 0 with  *)
(* m = <<>>; int operands are converted as Python converts them.  The      *)
(* values of the program are far from the subnormal and the infinite.      *)
(***************************************************************************)
MantissaBits == 53

\* extra quotient bits of a division, enough for the rounding
GuardBits == 2 * LimbBits

FZero == [neg |-> FALSE, m |-> <<>>, e |-> 0]

\* r * 2^e with r of MantissaBits bits, or of one more after a carry
FCarry(neg, r, e) ==
    IF BitLen(r) > MantissaBits
    THEN [neg |-> neg, m |-> BigDivSmall(r, 2).q, e |-> e + 1]
    ELSE [neg |-> neg, m |-> r, e |-> e]

\* q * 2^e rounded up if the bit below q is set and a bit further below
\* is, or q is odd
FTiesToEven(neg, q, e, half, more) ==
    FCarry(neg, IF half /\ (more \/ q[1] % 2 = 1) THEN BigAdd(q, <<1>>) ELSE q, e)

\* big has len bits: the first MantissaBits of them are kept, rounded up by
\* the bits below
FRoundBits(neg, big, len, e, sticky) ==
    IF len = 0 THEN FZero
    ELSE IF len <= MantissaBits
    THEN [neg |-> neg, m |-> BigShl(big, MantissaBits - len),
          e |-> e - (MantissaBits - len)]
    ELSE FTiesToEven(neg, BigShr(big, len - MantissaBits).q,
                     e + (len - MantissaBits),
                     BigBit(big, len - MantissaBits - 1) = 1,
                     sticky \/ BigBelow(big, len - MantissaBits - 1))

\* the float nearest to big * 2^e, or to a little more if sticky
FRound(neg, big, e, sticky) == FRoundBits(neg, big, BitLen(big), e, sticky)

\* float(n)
FOfInt(n) == FRound(n < 0, BigOf(IF n < 0 THEN -n ELSE n), 0, FALSE)

\* float(n) of the small ints, computed once
FloatOf == [n \in -Pow2(10) .. Pow2(10) |-> FOfInt(n)]

FInt(n) == IF n \in DOMAIN FloatOf THEN FloatOf[n] ELSE FOfInt(n)

FNeg(a) == IF a.m = <<>> THEN a ELSE [a EXCEPT !.neg = ~a.neg]

\* x * 2^e + y * 2^e with the signs of a and b, c comparing x with y
FSum(a, b, x, y, c, e) ==
    FRound(IF a.neg = b.neg \/ c > 0 THEN a.neg ELSE b.neg,
           IF a.neg = b.neg THEN BigAdd(x, y)
           ELSE IF c > 0 THEN BigSub(x, y)
           ELSE IF c < 0 THEN BigSub(y, x)
           ELSE <<>>,
           e, FALSE)

FAligned(a, b, x, y, e) == FSum(a, b, x, y, BigCmp(x, y), e)

\* a + b
FAdd(a, b) ==
    IF a.m = <<>> THEN b
    ELSE IF b.m = <<>> THEN a
    ELSE FAligned(a, b, BigShl(a.m, a.e - Min(a.e, b.e)),
                  BigShl(b.m, b.e - Min(a.e, b.e)), Min(a.e, b.e))

\* a - b
FSub(a, b) == FAdd(a, FNeg(b))

\* a * k for an int k
FMulInt(a, k) ==
    FRound(a.neg # (k < 0), BigMulSmall(a.m, IF k < 0 THEN -k ELSE k), a.e, FALSE)

FQuotient(a, x) == FRound(a.neg, x.q, a.e - GuardBits, x.r # 0)

\* a / d for an int d, 0 < d <= LimbBase
FDivInt(a, d) ==
    IF a.m = <<>> THEN FZero
    ELSE FQuotient(a, BigDivSmall(BigShl(a.m, GuardBits), d))

\* a > 0
FPositive(a) == a.m # <<>> /\ ~a.neg

\* a < b
FLess(a, b) ==
    IF a.m = <<>> THEN FPositive(b)
    ELSE IF b.m = <<>> THEN a.neg
    ELSE IF a.neg # b.neg THEN a.neg
    ELSE BigCmp(BigShl(a.m, a.e - Min(a.e, b.e)),
                BigShl(b.m, b.e - Min(a.e, b.e))) = (IF a.neg THEN 1 ELSE -1)

\* int(a // n) for a >= 0 and an int n, 0 < n <= LimbBase
FFloorDivInt(a, n) ==
    IF a.m = <<>> THEN 0
    ELSE IF a.e >= 0 THEN BigToInt(BigDivSmall(BigShl(a.m, a.e), n).q)
    ELSE BigToInt(BigDivSmall(BigShr(a.m, -a.e).q, n).q)

\* max(0, a)
FMax0(a) == IF FPositive(a) THEN a ELSE FZero

\* min(a, b)
FMin(a, b) == IF FLess(b, a) THEN b ELSE a

\* copied_message_duration = 1.5
copied_message_duration == FDivInt(FInt(3), 2)

\* 1000.0 of dt = clock.tick(60) / 1000.0
MillisPerSecond == 1000

(***************************************************************************)
(* String literals of the program, as code points.                         *)
(***************************************************************************)
\* "Error parsing: "
TxtErrorParsing == <<69, 114, 114, 111, 114, 32, 112, 97, 114, 115, 105, 110, 103, 58, 32>>
\* "Parsing timed out after "
TxtTimedOutHead == <<80, 97, 114, 115, 105, 110, 103, 32, 116, 105, 109, 101, 100, 32, 111, 117, 116, 32, 97, 102, 116, 101, 114, 32>>
\* "s. Content may be too large or complex."
TxtTimedOutTail == <<115, 46, 32, 67, 111, 110, 116, 101, 110, 116, 32, 109, 97, 121, 32, 98, 101, 32, 116, 111, 111, 32, 108, 97, 114, 103, 101, 32, 111, 114, 32, 99, 111, 109, 112, 108, 101, 120, 46>>
\* "Unexpected error: "
TxtUnexpected == <<85, 110, 101, 120, 112, 101, 99, 116, 101, 100, 32, 101, 114, 114, 111, 114, 58, 32>>
\* "Password"
TxtPassword == <<80, 97, 115, 115, 119, 111, 114, 100>>
\* "Email"
TxtEmail == <<69, 109, 97, 105, 108>>
\* "Not found"
TxtNotFound == <<78, 111, 116, 32, 102, 111, 117, 110, 100>>

(***************************************************************************)
(* Text of the exceptions the standard library raises.                     *)
(***************************************************************************)
\* str(ValueError) of queue.Queue.get with a negative timeout:
\* "'timeout' must be a non-negative number"
TxtBadTimeout == <<39, 116, 105, 109, 101, 111, 117, 116, 39, 32, 109, 117, 115, 116, 32, 98, 101, 32, 97, 32, 110, 111, 110, 45, 110, 101, 103, 97, 116, 105, 118, 101, 32, 110, 117, 109, 98, 101, 114>>
\* os.strerror(ENOENT): "No such file or directory"
TxtNoSuchFile == <<78, 111, 32, 115, 117, 99, 104, 32, 102, 105, 108, 101, 32, 111, 114, 32, 100, 105, 114, 101, 99, 116, 111, 114, 121>>
\* os.strerror(EACCES): "Permission denied"
TxtPermissionDenied == <<80, 101, 114, 109, 105, 115, 115, 105, 111, 110, 32, 100, 101, 110, 105, 101, 100>>
\* os.strerror(EISDIR): "Is a directory"
TxtIsADirectory == <<73, 115, 32, 97, 32, 100, 105, 114, 101, 99, 116, 111, 114, 121>>
\* "[Errno "
TxtErrno == <<91, 69, 114, 114, 110, 111, 32>>

\* open() and f.read() succeed
NoError == [errno |-> 0, strerror |-> <<>>]
\* the OSError of open(): FileNotFoundError, PermissionError, IsADirectoryError
ENOENT == [errno |-> 2, strerror |-> TxtNoSuchFile]
EACCES == [errno |-> 13, strerror |-> TxtPermissionDenied]
EISDIR == [errno |-> 21, strerror |-> TxtIsADirectory]

OpenFailures == {ENOENT, EACCES, EISDIR}

(***************************************************************************)
(* Formatting.                                                             *)
(***************************************************************************)
\* one digit of "{:x}": 0-9 then a-f
HexDigit(n) == IF n < 10 THEN 48 + n ELSE 87 + n

\* "0x{:02x}".format(byte_val)
HexByte(b) == <<48, 120, HexDigit(b \div 16), HexDigit(b % 16)>>

RECURSIVE DecStr(_)
\* str(n) of a natural number
DecStr(n) == IF n < 10 THEN <<48 + n>> ELSE DecStr(n \div 10) \o <<48 + (n % 10)>>

\* str(x) of the float x = t/10, as f"{timeout}" formats it
FloatStr(t) ==
    LET a == IF t < 0 THEN -t ELSE t
    IN  (IF t < 0 THEN <<45>> ELSE <<>>) \o DecStr(a \div 10) \o <<46, 48 + (a % 10)>>

RECURSIVE HexStr(_, _)
\* "{:0wx}".format(n): w hexadecimal digits
HexStr(n, w) == IF w = 0 THEN <<>> ELSE HexStr(n \div 16, w - 1) \o <<HexDigit(n % 16)>>

\* the code points str.isprintable() rejects, as ranges <<first, last>>
\* (Unicode 14.0.0, the table of the interpreter): control characters,
\* separators but the space, format characters, surrogates, private use and
\* unassigned code points
NonPrintableRanges ==
    << <<0, 31>>, <<127, 160>>, <<173, 173>>, <<888, 889>>, <<896, 899>>, <<907, 907>>,
       <<909, 909>>, <<930, 930>>, <<1328, 1328>>, <<1367, 1368>>, <<1419, 1420>>, <<1424, 1424>>,
       <<1480, 1487>>, <<1515, 1518>>, <<1525, 1541>>, <<1564, 1564>>, <<1757, 1757>>,
       <<1806, 1807>>, <<1867, 1868>>, <<1970, 1983>>, <<2043, 2044>>, <<2094, 2095>>,
       <<2111, 2111>>, <<2140, 2141>>, <<2143, 2143>>, <<2155, 2159>>, <<2191, 2199>>,
       <<2274, 2274>>, <<2436, 2436>>, <<2445, 2446>>, <<2449, 2450>>, <<2473, 2473>>,
       <<2481, 2481>>, <<2483, 2485>>, <<2490, 2491>>, <<2501, 2502>>, <<2505, 2506>>,
       <<2511, 2518>>, <<2520, 2523>>, <<2526, 2526>>, <<2532, 2533>>, <<2559, 2560>>,
       <<2564, 2564>>, <<2571, 2574>>, <<2577, 2578>>, <<2601, 2601>>, <<2609, 2609>>,
       <<2612, 2612>>, <<2615, 2615>>, <<2618, 2619>>, <<2621, 2621>>, <<2627, 2630>>,
       <<2633, 2634>>, <<2638, 2640>>, <<2642, 2648>>, <<2653, 2653>>, <<2655, 2661>>,
       <<2679, 2688>>, <<2692, 2692>>, <<2702, 2702>>, <<2706, 2706>>, <<2729, 2729>>,
       <<2737, 2737>>, <<2740, 2740>>, <<2746, 2747>>, <<2758, 2758>>, <<2762, 2762>>,
       <<2766, 2767>>, <<2769, 2783>>, <<2788, 2789>>, <<2802, 2808>>, <<2816, 2816>>,
       <<2820, 2820>>, <<2829, 2830>>, <<2833, 2834>>, <<2857, 2857>>, <<2865, 2865>>,
       <<2868, 2868>>, <<2874, 2875>>, <<2885, 2886>>, <<2889, 2890>>, <<2894, 2900>>,
       <<2904, 2907>>, <<2910, 2910>>, <<2916, 2917>>, <<2936, 2945>>, <<2948, 2948>>,
       <<2955, 2957>>, <<2961, 2961>>, <<2966, 2968>>, <<2971, 2971>>, <<2973, 2973>>,
       <<2976, 2978>>, <<2981, 2983>>, <<2987, 2989>>, <<3002, 3005>>, <<3011, 3013>>,
       <<3017, 3017>>, <<3022, 3023>>, <<3025, 3030>>, <<3032, 3045>>, <<3067, 3071>>,
       <<3085, 3085>>, <<3089, 3089>>, <<3113, 3113>>, <<3130, 3131>>, <<3141, 3141>>,
       <<3145, 3145>>, <<3150, 3156>>, <<3159, 3159>>, <<3163, 3164>>, <<3166, 3167>>,
       <<3172, 3173>>, <<3184, 3190>>, <<3213, 3213>>, <<3217, 3217>>, <<3241, 3241>>,
       <<3252, 3252>>, <<3258, 3259>>, <<3269, 3269>>, <<3273, 3273>>, <<3278, 3284>>,
       <<3287, 3292>>, <<3295, 3295>>, <<3300, 3301>>, <<3312, 3312>>, <<3315, 3327>>,
       <<3341, 3341>>, <<3345, 3345>>, <<3397, 3397>>, <<3401, 3401>>, <<3408, 3411>>,
       <<3428, 3429>>, <<3456, 3456>>, <<3460, 3460>>, <<3479, 3481>>, <<3506, 3506>>,
       <<3516, 3516>>, <<3518, 3519>>, <<3527, 3529>>, <<3531, 3534>>, <<3541, 3541>>,
       <<3543, 3543>>, <<3552, 3557>>, <<3568, 3569>>, <<3573, 3584>>, <<3643, 3646>>,
       <<3676, 3712>>, <<3715, 3715>>, <<3717, 3717>>, <<3723, 3723>>, <<3748, 3748>>,
       <<3750, 3750>>, <<3774, 3775>>, <<3781, 3781>>, <<3783, 3783>>, <<3790, 3791>>,
       <<3802, 3803>>, <<3808, 3839>>, <<3912, 3912>>, <<3949, 3952>>, <<3992, 3992>>,
       <<4029, 4029>>, <<4045, 4045>>, <<4059, 4095>>, <<4294, 4294>>, <<4296, 4300>>,
       <<4302, 4303>>, <<4681, 4681>>, <<4686, 4687>>, <<4695, 4695>>, <<4697, 4697>>,
       <<4702, 4703>>, <<4745, 4745>>, <<4750, 4751>>, <<4785, 4785>>, <<4790, 4791>>,
       <<4799, 4799>>, <<4801, 4801>>, <<4806, 4807>>, <<4823, 4823>>, <<4881, 4881>>,
       <<4886, 4887>>, <<4955, 4956>>, <<4989, 4991>>, <<5018, 5023>>, <<5110, 5111>>,
       <<5118, 5119>>, <<5760, 5760>>, <<5789, 5791>>, <<5881, 5887>>, <<5910, 5918>>,
       <<5943, 5951>>, <<5972, 5983>>, <<5997, 5997>>, <<6001, 6001>>, <<6004, 6015>>,
       <<6110, 6111>>, <<6122, 6127>>, <<6138, 6143>>, <<6158, 6158>>, <<6170, 6175>>,
       <<6265, 6271>>, <<6315, 6319>>, <<6390, 6399>>, <<6431, 6431>>, <<6444, 6447>>,
       <<6460, 6463>>, <<6465, 6467>>, <<6510, 6511>>, <<6517, 6527>>, <<6572, 6575>>,
       <<6602, 6607>>, <<6619, 6621>>, <<6684, 6685>>, <<6751, 6751>>, <<6781, 6782>>,
       <<6794, 6799>>, <<6810, 6815>>, <<6830, 6831>>, <<6863, 6911>>, <<6989, 6991>>,
       <<7039, 7039>>, <<7156, 7163>>, <<7224, 7226>>, <<7242, 7244>>, <<7305, 7311>>,
       <<7355, 7356>>, <<7368, 7375>>, <<7419, 7423>>, <<7958, 7959>>, <<7966, 7967>>,
       <<8006, 8007>>, <<8014, 8015>>, <<8024, 8024>>, <<8026, 8026>>, <<8028, 8028>>,
       <<8030, 8030>>, <<8062, 8063>>, <<8117, 8117>>, <<8133, 8133>>, <<8148, 8149>>,
       <<8156, 8156>>, <<8176, 8177>>, <<8181, 8181>>, <<8191, 8207>>, <<8232, 8239>>,
       <<8287, 8303>>, <<8306, 8307>>, <<8335, 8335>>, <<8349, 8351>>, <<8385, 8399>>,
       <<8433, 8447>>, <<8588, 8591>>, <<9255, 9279>>, <<9291, 9311>>, <<11124, 11125>>,
       <<11158, 11158>>, <<11508, 11512>>, <<11558, 11558>>, <<11560, 11564>>, <<11566, 11567>>,
       <<11624, 11630>>, <<11633, 11646>>, <<11671, 11679>>, <<11687, 11687>>, <<11695, 11695>>,
       <<11703, 11703>>, <<11711, 11711>>, <<11719, 11719>>, <<11727, 11727>>, <<11735, 11735>>,
       <<11743, 11743>>, <<11870, 11903>>, <<11930, 11930>>, <<12020, 12031>>, <<12246, 12271>>,
       <<12284, 12288>>, <<12352, 12352>>, <<12439, 12440>>, <<12544, 12548>>, <<12592, 12592>>,
       <<12687, 12687>>, <<12772, 12783>>, <<12831, 12831>>, <<42125, 42127>>, <<42183, 42191>>,
       <<42540, 42559>>, <<42744, 42751>>, <<42955, 42959>>, <<42962, 42962>>, <<42964, 42964>>,
       <<42970, 42993>>, <<43053, 43055>>, <<43066, 43071>>, <<43128, 43135>>, <<43206, 43213>>,
       <<43226, 43231>>, <<43348, 43358>>, <<43389, 43391>>, <<43470, 43470>>, <<43482, 43485>>,
       <<43519, 43519>>, <<43575, 43583>>, <<43598, 43599>>, <<43610, 43611>>, <<43715, 43738>>,
       <<43767, 43776>>, <<43783, 43784>>, <<43791, 43792>>, <<43799, 43807>>, <<43815, 43815>>,
       <<43823, 43823>>, <<43884, 43887>>, <<44014, 44015>>, <<44026, 44031>>, <<55204, 55215>>,
       <<55239, 55242>>, <<55292, 63743>>, <<64110, 64111>>, <<64218, 64255>>, <<64263, 64274>>,
       <<64280, 64284>>, <<64311, 64311>>, <<64317, 64317>>, <<64319, 64319>>, <<64322, 64322>>,
       <<64325, 64325>>, <<64451, 64466>>, <<64912, 64913>>, <<64968, 64974>>, <<64976, 65007>>,
       <<65050, 65055>>, <<65107, 65107>>, <<65127, 65127>>, <<65132, 65135>>, <<65141, 65141>>,
       <<65277, 65280>>, <<65471, 65473>>, <<65480, 65481>>, <<65488, 65489>>, <<65496, 65497>>,
       <<65501, 65503>>, <<65511, 65511>>, <<65519, 65531>>, <<65534, 65535>>, <<65548, 65548>>,
       <<65575, 65575>>, <<65595, 65595>>, <<65598, 65598>>, <<65614, 65615>>, <<65630, 65663>>,
       <<65787, 65791>>, <<65795, 65798>>, <<65844, 65846>>, <<65935, 65935>>, <<65949, 65951>>,
       <<65953, 65999>>, <<66046, 66175>>, <<66205, 66207>>, <<66257, 66271>>, <<66300, 66303>>,
       <<66340, 66348>>, <<66379, 66383>>, <<66427, 66431>>, <<66462, 66462>>, <<66500, 66503>>,
       <<66518, 66559>>, <<66718, 66719>>, <<66730, 66735>>, <<66772, 66775>>, <<66812, 66815>>,
       <<66856, 66863>>, <<66916, 66926>>, <<66939, 66939>>, <<66955, 66955>>, <<66963, 66963>>,
       <<66966, 66966>>, <<66978, 66978>>, <<66994, 66994>>, <<67002, 67002>>, <<67005, 67071>>,
       <<67383, 67391>>, <<67414, 67423>>, <<67432, 67455>>, <<67462, 67462>>, <<67505, 67505>>,
       <<67515, 67583>>, <<67590, 67591>>, <<67593, 67593>>, <<67638, 67638>>, <<67641, 67643>>,
       <<67645, 67646>>, <<67670, 67670>>, <<67743, 67750>>, <<67760, 67807>>, <<67827, 67827>>,
       <<67830, 67834>>, <<67868, 67870>>, <<67898, 67902>>, <<67904, 67967>>, <<68024, 68027>>,
       <<68048, 68049>>, <<68100, 68100>>, <<68103, 68107>>, <<68116, 68116>>, <<68120, 68120>>,
       <<68150, 68151>>, <<68155, 68158>>, <<68169, 68175>>, <<68185, 68191>>, <<68256, 68287>>,
       <<68327, 68330>>, <<68343, 68351>>, <<68406, 68408>>, <<68438, 68439>>, <<68467, 68471>>,
       <<68498, 68504>>, <<68509, 68520>>, <<68528, 68607>>, <<68681, 68735>>, <<68787, 68799>>,
       <<68851, 68857>>, <<68904, 68911>>, <<68922, 69215>>, <<69247, 69247>>, <<69290, 69290>>,
       <<69294, 69295>>, <<69298, 69375>>, <<69416, 69423>>, <<69466, 69487>>, <<69514, 69551>>,
       <<69580, 69599>>, <<69623, 69631>>, <<69710, 69713>>, <<69750, 69758>>, <<69821, 69821>>,
       <<69827, 69839>>, <<69865, 69871>>, <<69882, 69887>>, <<69941, 69941>>, <<69960, 69967>>,
       <<70007, 70015>>, <<70112, 70112>>, <<70133, 70143>>, <<70162, 70162>>, <<70207, 70271>>,
       <<70279, 70279>>, <<70281, 70281>>, <<70286, 70286>>, <<70302, 70302>>, <<70314, 70319>>,
       <<70379, 70383>>, <<70394, 70399>>, <<70404, 70404>>, <<70413, 70414>>, <<70417, 70418>>,
       <<70441, 70441>>, <<70449, 70449>>, <<70452, 70452>>, <<70458, 70458>>, <<70469, 70470>>,
       <<70473, 70474>>, <<70478, 70479>>, <<70481, 70486>>, <<70488, 70492>>, <<70500, 70501>>,
       <<70509, 70511>>, <<70517, 70655>>, <<70748, 70748>>, <<70754, 70783>>, <<70856, 70863>>,
       <<70874, 71039>>, <<71094, 71095>>, <<71134, 71167>>, <<71237, 71247>>, <<71258, 71263>>,
       <<71277, 71295>>, <<71354, 71359>>, <<71370, 71423>>, <<71451, 71452>>, <<71468, 71471>>,
       <<71495, 71679>>, <<71740, 71839>>, <<71923, 71934>>, <<71943, 71944>>, <<71946, 71947>>,
       <<71956, 71956>>, <<71959, 71959>>, <<71990, 71990>>, <<71993, 71994>>, <<72007, 72015>>,
       <<72026, 72095>>, <<72104, 72105>>, <<72152, 72153>>, <<72165, 72191>>, <<72264, 72271>>,
       <<72355, 72367>>, <<72441, 72703>>, <<72713, 72713>>, <<72759, 72759>>, <<72774, 72783>>,
       <<72813, 72815>>, <<72848, 72849>>, <<72872, 72872>>, <<72887, 72959>>, <<72967, 72967>>,
       <<72970, 72970>>, <<73015, 73017>>, <<73019, 73019>>, <<73022, 73022>>, <<73032, 73039>>,
       <<73050, 73055>>, <<73062, 73062>>, <<73065, 73065>>, <<73103, 73103>>, <<73106, 73106>>,
       <<73113, 73119>>, <<73130, 73439>>, <<73465, 73647>>, <<73649, 73663>>, <<73714, 73726>>,
       <<74650, 74751>>, <<74863, 74863>>, <<74869, 74879>>, <<75076, 77711>>, <<77811, 77823>>,
       <<78895, 82943>>, <<83527, 92159>>, <<92729, 92735>>, <<92767, 92767>>, <<92778, 92781>>,
       <<92863, 92863>>, <<92874, 92879>>, <<92910, 92911>>, <<92918, 92927>>, <<92998, 93007>>,
       <<93018, 93018>>, <<93026, 93026>>, <<93048, 93052>>, <<93072, 93759>>, <<93851, 93951>>,
       <<94027, 94030>>, <<94088, 94094>>, <<94112, 94175>>, <<94181, 94191>>, <<94194, 94207>>,
       <<100344, 100351>>, <<101590, 101631>>, <<101641, 110575>>, <<110580, 110580>>,
       <<110588, 110588>>, <<110591, 110591>>, <<110883, 110927>>, <<110931, 110947>>,
       <<110952, 110959>>, <<111356, 113663>>, <<113771, 113775>>, <<113789, 113791>>,
       <<113801, 113807>>, <<113818, 113819>>, <<113824, 118527>>, <<118574, 118575>>,
       <<118599, 118607>>, <<118724, 118783>>, <<119030, 119039>>, <<119079, 119080>>,
       <<119155, 119162>>, <<119275, 119295>>, <<119366, 119519>>, <<119540, 119551>>,
       <<119639, 119647>>, <<119673, 119807>>, <<119893, 119893>>, <<119965, 119965>>,
       <<119968, 119969>>, <<119971, 119972>>, <<119975, 119976>>, <<119981, 119981>>,
       <<119994, 119994>>, <<119996, 119996>>, <<120004, 120004>>, <<120070, 120070>>,
       <<120075, 120076>>, <<120085, 120085>>, <<120093, 120093>>, <<120122, 120122>>,
       <<120127, 120127>>, <<120133, 120133>>, <<120135, 120137>>, <<120145, 120145>>,
       <<120486, 120487>>, <<120780, 120781>>, <<121484, 121498>>, <<121504, 121504>>,
       <<121520, 122623>>, <<122655, 122879>>, <<122887, 122887>>, <<122905, 122906>>,
       <<122914, 122914>>, <<122917, 122917>>, <<122923, 123135>>, <<123181, 123183>>,
       <<123198, 123199>>, <<123210, 123213>>, <<123216, 123535>>, <<123567, 123583>>,
       <<123642, 123646>>, <<123648, 124895>>, <<124903, 124903>>, <<124908, 124908>>,
       <<124911, 124911>>, <<124927, 124927>>, <<125125, 125126>>, <<125143, 125183>>,
       <<125260, 125263>>, <<125274, 125277>>, <<125280, 126064>>, <<126133, 126208>>,
       <<126270, 126463>>, <<126468, 126468>>, <<126496, 126496>>, <<126499, 126499>>,
       <<126501, 126502>>, <<126504, 126504>>, <<126515, 126515>>, <<126520, 126520>>,
       <<126522, 126522>>, <<126524, 126529>>, <<126531, 126534>>, <<126536, 126536>>,
       <<126538, 126538>>, <<126540, 126540>>, <<126544, 126544>>, <<126547, 126547>>,
       <<126549, 126550>>, <<126552, 126552>>, <<126554, 126554>>, <<126556, 126556>>,
       <<126558, 126558>>, <<126560, 126560>>, <<126563, 126563>>, <<126565, 126566>>,
       <<126571, 126571>>, <<126579, 126579>>, <<126584, 126584>>, <<126589, 126589>>,
       <<126591, 126591>>, <<126602, 126602>>, <<126620, 126624>>, <<126628, 126628>>,
       <<126634, 126634>>, <<126652, 126703>>, <<126706, 126975>>, <<127020, 127023>>,
       <<127124, 127135>>, <<127151, 127152>>, <<127168, 127168>>, <<127184, 127184>>,
       <<127222, 127231>>, <<127406, 127461>>, <<127491, 127503>>, <<127548, 127551>>,
       <<127561, 127567>>, <<127570, 127583>>, <<127590, 127743>>, <<128728, 128732>>,
       <<128749, 128751>>, <<128765, 128767>>, <<128884, 128895>>, <<128985, 128991>>,
       <<129004, 129007>>, <<129009, 129023>>, <<129036, 129039>>, <<129096, 129103>>,
       <<129114, 129119>>, <<129160, 129167>>, <<129198, 129199>>, <<129202, 129279>>,
       <<129620, 129631>>, <<129646, 129647>>, <<129653, 129655>>, <<129661, 129663>>,
       <<129671, 129679>>, <<129709, 129711>>, <<129723, 129727>>, <<129734, 129743>>,
       <<129754, 129759>>, <<129768, 129775>>, <<129783, 129791>>, <<129939, 129939>>,
       <<129995, 130031>>, <<130042, 131071>>, <<173792, 173823>>, <<177977, 177983>>,
       <<178206, 178207>>, <<183970, 183983>>, <<191457, 194559>>, <<195102, 196607>>,
       <<201547, 917759>>, <<918000, 1114111>> >>

\* str.isprintable() of one character, as repr() asks it
IsReprPrintable(c) ==
    \A i \in 1 .. Len(NonPrintableRanges) :
        c < NonPrintableRanges[i][1] \/ c > NonPrintableRanges[i][2]

\* one character inside repr(str), between the quotes quote
ReprChar(c, quote) ==
    IF c = 92 \/ c = quote THEN <<92, c>>
    ELSE IF c = 9 THEN <<92, 116>>
    ELSE IF c = 10 THEN <<92, 110>>
    ELSE IF c = 13 THEN <<92, 114>>
    ELSE IF IsReprPrintable(c) THEN <<c>>
    ELSE IF c < 256 THEN <<92, 120>> \o HexStr(c, 2)
    ELSE IF c < 65536 THEN <<92, 117>> \o HexStr(c, 4)
    ELSE <<92, 85>> \o HexStr(c, 8)

\* repr(s) of a str: in double quotes if s holds ' and no ", else in single
\* quotes
Repr(t) ==
    LET quote == IF (\E i \in 1 .. Len(t) : t[i] = 39) /\ ~(\E i \in 1 .. Len(t) : t[i] = 34)
                 THEN 34 ELSE 39
    IN  <<quote>> \o Flatten([i \in 1 .. Len(t) |-> ReprChar(t[i], quote)]) \o <<quote>>

\* str(e) of the OSError err raised for path:
\* "[Errno {errno}] {strerror}: {filename!r}"
OpenErrorText(path, err) ==
    TxtErrno \o DecStr(err.errno) \o <<93, 32>> \o err.strerror \o <<58, 32>> \o Repr(path)

(***************************************************************************)
(* Tokens and outcomes.                                                    *)
(***************************************************************************)
ByteToken(b) == [type |-> "Byte", val |-> HexByte(b)]

StringToken(text) == [type |-> "String", val |-> text]

ErrorToken(text) == [type |-> "Error", val |-> text]

\* the tuple (parsed_data, was_incomplete, status_message); by is the
\* thread that built it (0: the calling thread), kept to tell outcomes apart
Outcome(tokens, incomplete, status, by) ==
    [tokens |-> tokens, was_incomplete |-> incomplete, status |-> status, by |-> by]

(***************************************************************************)
(* The tokenizer: _parse_sol_content_threaded.                             *)
(***************************************************************************)
\* the byte class [ -~\t\n\r]
IsPrintable(b) == (b >= 32 /\ b <= 126) \/ b \in {9, 10, 13}

\* the pattern written with + in place of {2,}
IsRunOfOne(len) == len >= 1

\* a run long enough for {2,}
IsRun(len) == len >= MinRun

\* the scan run on data, the slice forgotten
DataUntruncated(data, cap) == data

\* data[:max_bytes_to_process]: a negative stop counts from the end
DataToProcess(data, cap) ==
    SubSeq(data, 1, IF cap >= 0 THEN Min(Len(data), cap) ELSE Max(0, Len(data) + cap))

RECURSIVE RunEnd(_, _)
\* where the greedy repetition started at p stops
RunEnd(d, p) == IF p < Len(d) /\ IsPrintable(d[p + 1]) THEN RunEnd(d, p + 1) ELSE p

RECURSIVE FindFrom(_, _)
\* the matches re.finditer yields from position p on: leftmost, greedy,
\* not overlapping; start and end as match.start() and match.end()
FindFrom(d, p) ==
    IF p >= Len(d) THEN <<>>
    ELSE LET e == RunEnd(d, p)
         IN  IF IsRun(e - p)
             THEN <<[start |-> p, end |-> e]>> \o FindFrom(d, e)
             ELSE FindFrom(d, p + 1)

FindIter(d) == FindFrom(d, 0)

\* bytes.decode('utf-8', errors='ignore') of a match: a match holds ASCII
\* bytes only, each of which decodes to the code point of the same value
DecodeIgnore(bs) == SelectSeq(bs, LAMBDA b : b < 128)

\* one ("Byte", hex) token per byte of d[from:to]
ByteTokens(d, from, to) == [i \in 1 .. (to - from) |-> ByteToken(d[from + i])]

\* the body of the for loop for match m: the bytes before it, then the string
MatchBody(d, m, last, toks) ==
    LET raw == DecodeIgnore(Slice(d, m.start, m.end))
    IN  toks
        \o (IF m.start > last THEN ByteTokens(d, last, m.start) ELSE <<>>)
        \o (IF raw # <<>> THEN <<StringToken(raw)>> ELSE <<>>)

\* the bytes after the last match
TailTokens(d, last, toks) ==
    toks \o (IF last < Len(d) THEN ByteTokens(d, last, Len(d)) ELSE <<>>)

RECURSIVE ScanFrom(_, _, _, _, _)
\* the loop run from match k + 1 on with no interruption
ScanFrom(d, ms, k, last, toks) ==
    IF k >= Len(ms) THEN TailTokens(d, last, toks)
    ELSE ScanFrom(d, ms, k + 1, ms[k + 1].end, MatchBody(d, ms[k + 1], last, toks))

\* final_parsed_data of an uninterrupted scan of d
ScanAll(d) == ScanFrom(d, FindIter(d), 0, 0, <<>>)

CompleteOutcome(toks, w) == Outcome(toks, FALSE, "Complete", w)

\* the interruption reported as a token, as the error branches report theirs
InterruptedOutcomeMarked(toks, w) ==
    Outcome(toks \o <<[type |-> "Error", val |-> <<>>]>>, TRUE, "Interrupted", w)

InterruptedOutcome(toks, w) == Outcome(toks, TRUE, "Interrupted", w)

\* the except branch of the worker
WorkerErrorOutcome(text, w) ==
    Outcome(<<ErrorToken(TxtErrorParsing \o text)>>, TRUE, "Error", w)

(***************************************************************************)
(* State.                                                                  *)
(***************************************************************************)
VARIABLES
    stop_parsing_event,  \* the global threading.Event
    worker,              \* the parser thread of each invocation
    queues,              \* the content of each queue.Queue
    call,                \* the calling thread inside parse_sol_content_with_timeout
    args,                \* the arguments of each invocation
    returned,            \* what each invocation returned to its caller
    raised,              \* how each invocation raised the signal, "no" if not
    midScan,             \* whether the signal was raised for a worker mid-scan
    escaped,             \* whether each invocation ended by an exception
    content,             \* current_parsed_content of main
    idx,                 \* the loop variable i of the extraction loop
    extracted_email,
    extracted_password,
    ui                   \* the window of main: selection, buttons, clipboard, screen

hvars == <<stop_parsing_event, worker, queues, call, args, returned, raised, midScan, escaped>>
evars == <<content, idx, extracted_email, extracted_password, ui>>
vars == <<stop_parsing_event, worker, queues, call, args, returned, raised, midScan, escaped,
          content, idx, extracted_email, extracted_password, ui>>

\* path is the file_path, err what open() raises for it, data what f.read()
\* returns
NoFile == [path |-> <<>>, err |-> ENOENT, data |-> <<>>]

IdleWorker ==
    [pc |-> "idle", file |-> NoFile, cap |-> 0, q |-> 0, data |-> <<>>,
     k |-> 0, last_match_end |-> 0, final_parsed_data |-> <<>>, put |-> <<>>]

\* threading.Thread(target=..., args=(file_path, q, max_bytes_to_process)).start()
StartedWorker(file, q, cap) ==
    [IdleWorker EXCEPT !.pc = "open", !.file = file, !.q = q, !.cap = cap]

NoArgs == [file |-> NoFile, timeout |-> Seconds(0), cap |-> 0]

\* the calling thread: inv counts the invocations begun, q is its queue
IdleCall == [pc |-> "idle", inv |-> 0, q |-> 0]

\* the worker is scanning and has tokens still to emit
MidScan(w) ==
    /\ worker[w].pc \in {"loop", "body", "tail"}
    /\ Len(worker[w].final_parsed_data) < Len(ScanAll(worker[w].data))

\* nothing copied yet
NoCopy == [kind |-> "none", text |-> <<>>, content |-> <<>>]

\* nothing drawn yet
NoDraw == [shown |-> FALSE, highlight |-> -1, email |-> <<>>, password |-> <<>>,
           email_copied |-> FALSE, password_copied |-> FALSE, content |-> <<>>]

\* a Button after __init__: copy_text = "", is_hovered = False,
\* copied_message_timer = 0
NewButton == [copy_text |-> <<>>, is_hovered |-> FALSE, copied_message_timer |-> FZero]

\* the window before the main loop: selected_file_index = -1,
\* file_list_scroll_offset = 0 (a float once the list is scrolled),
\* file_list_scrolling = False, last_mouse_y = 0 and the two buttons;
\* selections counts the clicks that selected another file; clipboard
\* records what the last copy copied, drawn what the frame just drawn shows,
\* until the next frame begins, each with the current_parsed_content of
\* that moment
IdleUI ==
    [pc |-> "off", running |-> TRUE, selected |-> -1, selections |-> 0,
     file_list_scroll_offset |-> FZero, file_list_scrolling |-> FALSE,
     last_mouse_y |-> 0,
     email_copy_button |-> NewButton, password_copy_button |-> NewButton,
     clipboard |-> NoCopy, drawn |-> NoDraw]

EInitIdle ==
    /\ content = <<>>
    /\ idx = 0
    /\ extracted_email = TxtNotFound
    /\ extracted_password = TxtNotFound
    /\ ui = IdleUI

(***************************************************************************)
(* The steps of the parser thread w.                                       *)
(***************************************************************************)
\* result_queue.put(item) with the tokens toks, and the end of the thread;
\* put records what the thread has put
PutAndEnd(w, item, toks) ==
    /\ queues' = [queues EXCEPT ![worker[w].q] = Append(@, item)]
    /\ worker' = [worker EXCEPT ![w].pc = "done",
                                ![w].final_parsed_data = toks,
                                ![w].put = Append(@, item)]

\* open() raises: the except branch reports it
WorkerOpenFail(w) ==
    /\ worker[w].pc = "open"
    /\ worker[w].file.err # NoError
    /\ PutAndEnd(w, WorkerErrorOutcome(OpenErrorText(worker[w].file.path, worker[w].file.err), w),
                 worker[w].final_parsed_data)
    /\ UNCHANGED <<stop_parsing_event, call, args, returned, raised, midScan, escaped, evars>>

\* f.read(), the truncation and the set-up of the loop
WorkerOpen(w) ==
    /\ worker[w].pc = "open"
    /\ worker[w].file.err = NoError
    /\ worker' = [worker EXCEPT ![w].pc = "loop",
                                ![w].data = DataToProcess(worker[w].file.data, worker[w].cap),
                                ![w].k = 0,
                                ![w].last_match_end = 0,
                                ![w].final_parsed_data = <<>>]
    /\ UNCHANGED <<stop_parsing_event, queues, call, args, returned, raised, midScan, escaped, evars>>

\* the iterator yields a match and the signal is set
WorkerInterrupted(w) ==
    /\ worker[w].pc = "loop"
    /\ worker[w].k < Len(FindIter(worker[w].data))
    /\ stop_parsing_event
    /\ PutAndEnd(w, InterruptedOutcome(worker[w].final_parsed_data, w),
                 worker[w].final_parsed_data)
    /\ UNCHANGED <<stop_parsing_event, call, args, returned, raised, midScan, escaped, evars>>

\* the iterator yields a match and the signal is not set
WorkerCheckPass(w) ==
    /\ worker[w].pc = "loop"
    /\ worker[w].k < Len(FindIter(worker[w].data))
    /\ ~stop_parsing_event
    /\ worker' = [worker EXCEPT ![w].pc = "body"]
    /\ UNCHANGED <<stop_parsing_event, queues, call, args, returned, raised, midScan, escaped, evars>>

\* the tokens of the current match
WorkerBody(w) ==
    /\ worker[w].pc = "body"
    /\ LET m == FindIter(worker[w].data)[worker[w].k + 1]
       IN  worker' = [worker EXCEPT
                ![w].pc = "loop",
                ![w].final_parsed_data =
                    MatchBody(worker[w].data, m, worker[w].last_match_end, @),
                ![w].last_match_end = m.end,
                ![w].k = @ + 1]
    /\ UNCHANGED <<stop_parsing_event, queues, call, args, returned, raised, midScan, escaped, evars>>

\* the iterator is exhausted
WorkerLoopEnd(w) ==
    /\ worker[w].pc = "loop"
    /\ worker[w].k >= Len(FindIter(worker[w].data))
    /\ worker' = [worker EXCEPT ![w].pc = "tail"]
    /\ UNCHANGED <<stop_parsing_event, queues, call, args, returned, raised, midScan, escaped, evars>>

\* the remaining bytes, and the complete result
WorkerTail(w) ==
    /\ worker[w].pc = "tail"
    /\ LET toks == TailTokens(worker[w].data, worker[w].last_match_end,
                              worker[w].final_parsed_data)
       IN  PutAndEnd(w, CompleteOutcome(toks, w), toks)
    /\ UNCHANGED <<stop_parsing_event, call, args, returned, raised, midScan, escaped, evars>>

WorkerStep(w) ==
    \/ WorkerOpenFail(w)
    \/ WorkerOpen(w)
    \/ WorkerInterrupted(w)
    \/ WorkerCheckPass(w)
    \/ WorkerBody(w)
    \/ WorkerLoopEnd(w)
    \/ WorkerTail(w)

(***************************************************************************)
(* The tokenizer alone: one parser thread on every buffer of up to MaxLen  *)
(* bytes and every cap, with the signal set from outside at any moment.    *)
(***************************************************************************)
\* the paths that cannot be opened: m, it's and d\
TokBadPaths == {<<109>>, <<105, 116, 39, 115>>, <<100, 92>>}

TokFiles ==
    {[path |-> <<102>>, err |-> NoError, data |-> d] : d \in BSeq(Alphabet, MaxLen)}
    \cup {[path |-> p, err |-> e, data |-> <<>>] : p \in TokBadPaths, e \in OpenFailures}

TokInit ==
    /\ stop_parsing_event = FALSE
    /\ \E f \in TokFiles, c \in Caps :
          worker = [w \in Invocations |-> IF w = 1 THEN StartedWorker(f, 1, c) ELSE IdleWorker]
    /\ queues = [q \in Invocations |-> <<>>]
    /\ call = IdleCall
    /\ args = [i \in Invocations |-> NoArgs]
    /\ returned = [i \in Invocations |-> <<>>]
    /\ raised = [i \in Invocations |-> "no"]
    /\ midScan = [i \in Invocations |-> FALSE]
    /\ escaped = [i \in Invocations |-> FALSE]
    /\ EInitIdle

\* stop_parsing_event.set() while the thread runs
SetSignal ==
    /\ ~stop_parsing_event
    /\ worker[1].pc \notin {"idle", "done"}
    /\ stop_parsing_event' = TRUE
    /\ raised' = [raised EXCEPT ![1] = "external"]
    /\ midScan' = [midScan EXCEPT ![1] = MidScan(1)]
    /\ UNCHANGED <<worker, queues, call, args, returned, escaped, evars>>

TokNext ==
    \/ WorkerStep(1)
    \/ SetSignal

SpecTok == TokInit /\ [][TokNext]_vars

(***************************************************************************)
(* The timeout harness: parse_sol_content_with_timeout.                    *)
(***************************************************************************)
\* the result of the except queue.Empty branch
TimeoutOutcome(timeout) ==
    Outcome(<<ErrorToken(TxtTimedOutHead \o FloatStr(timeout) \o TxtTimedOutTail)>>,
            TRUE, "Timed Out", 0)

\* the result of the except Exception branch
UnexpectedOutcome(text) ==
    Outcome(<<ErrorToken(TxtUnexpected \o text)>>, TRUE, "Error", 0)

\* the signal left as it was at the start of an invocation
EventNotCleared(e) == e

\* stop_parsing_event.clear()
EventCleared(e) == FALSE

\* one queue of the module, shared by all invocations
SharedQueue(inv) == 1

\* q = queue.Queue(): a new queue for invocation inv
NewQueue(inv) == inv

\* the files of the harness specification: a path that is a directory, a
\* file with no printable run, a file with two runs and bytes before, between
\* and after
HFiles ==
    { [path |-> <<100>>, err |-> EISDIR, data |-> <<>>],
      [path |-> <<98>>, err |-> NoError, data |-> <<0, 6>>],
      [path |-> <<116>>, err |-> NoError, data |-> <<65, 66, 0, 67, 68, 6>>] }

HCaps == {DefaultMaxBytes}

HInit ==
    /\ stop_parsing_event = FALSE
    /\ worker = [w \in Invocations |-> IdleWorker]
    /\ queues = [q \in Invocations |-> <<>>]
    /\ call = IdleCall
    /\ args = [i \in Invocations |-> NoArgs]
    /\ returned = [i \in Invocations |-> <<>>]
    /\ raised = [i \in Invocations |-> "no"]
    /\ midScan = [i \in Invocations |-> FALSE]
    /\ escaped = [i \in Invocations |-> FALSE]
    /\ EInitIdle

\* the call parse_sol_content_with_timeout(f.path, t, c), and
\* stop_parsing_event.clear()
InvokeWith(f, t, c) ==
    /\ call.pc = "idle"
    /\ call.inv < MaxInvocations
    /\ args' = [args EXCEPT ![call.inv + 1] = [file |-> f, timeout |-> t, cap |-> c]]
    /\ call' = [call EXCEPT !.pc = "start", !.inv = @ + 1]
    /\ stop_parsing_event' = EventCleared(stop_parsing_event)
    /\ UNCHANGED <<worker, queues, returned, raised, midScan, escaped>>

\* a call of the harness specification
Invoke ==
    /\ \E f \in HFiles, t \in Timeouts, c \in HCaps : InvokeWith(f, t, c)
    /\ UNCHANGED evars

\* the new queue, and parser_thread.start() raises RuntimeError (no thread
\* can be started): the call is outside the try and the exception leaves
\* parse_sol_content_with_timeout
StartFail ==
    /\ call.pc = "start"
    /\ call' = [call EXCEPT !.pc = "idle", !.q = NewQueue(call.inv)]
    /\ escaped' = [escaped EXCEPT ![call.inv] = TRUE]
    /\ UNCHANGED <<stop_parsing_event, worker, queues, args, returned, raised, midScan, evars>>

\* the new queue and the start of the parser thread
Start ==
    /\ call.pc = "start"
    /\ LET q == NewQueue(call.inv)
       IN  /\ call' = [call EXCEPT !.pc = "wait", !.q = q]
           /\ worker' = [worker EXCEPT ![call.inv] =
                  StartedWorker(args[call.inv].file, q, args[call.inv].cap)]
    /\ UNCHANGED <<stop_parsing_event, queues, args, returned, raised, midScan, escaped, evars>>

\* q.get(timeout=timeout) finds an item: it is returned as it is
Get ==
    /\ call.pc = "wait"
    /\ args[call.inv].timeout.none \/ args[call.inv].timeout.tenths >= 0
    /\ queues[call.q] # <<>>
    /\ returned' = [returned EXCEPT ![call.inv] = Append(@, Head(queues[call.q]))]
    /\ queues' = [queues EXCEPT ![call.q] = Tail(@)]
    /\ call' = [call EXCEPT !.pc = "idle"]
    /\ UNCHANGED <<stop_parsing_event, worker, args, raised, midScan, escaped, evars>>

\* q.get raises queue.Empty: the queue is empty when the time is up
TimeoutElapsed ==
    /\ call.pc = "wait"
    /\ ~args[call.inv].timeout.none
    /\ args[call.inv].timeout.tenths >= 0
    /\ queues[call.q] = <<>>
    /\ call' = [call EXCEPT !.pc = "empty"]
    /\ UNCHANGED <<stop_parsing_event, worker, queues, args, returned, raised, midScan, escaped, evars>>

\* stop_parsing_event.set() of the except queue.Empty branch, whatever the
\* thread has done since q.get raised
SetOnTimeout ==
    /\ call.pc = "empty"
    /\ stop_parsing_event' = TRUE
    /\ raised' = [raised EXCEPT ![call.inv] = "timeout"]
    /\ midScan' = [midScan EXCEPT ![call.inv] = MidScan(call.inv)]
    /\ call' = [call EXCEPT !.pc = "timedout"]
    /\ UNCHANGED <<worker, queues, args, returned, escaped, evars>>

\* q.get raises ValueError, as it does for a negative timeout
WaitFail ==
    /\ call.pc = "wait"
    /\ ~args[call.inv].timeout.none
    /\ args[call.inv].timeout.tenths < 0
    /\ call' = [call EXCEPT !.pc = "except"]
    /\ UNCHANGED <<stop_parsing_event, worker, queues, args, returned, raised, midScan, escaped, evars>>

\* stop_parsing_event.set() of the except Exception branch
SetOnFail ==
    /\ call.pc = "except"
    /\ stop_parsing_event' = TRUE
    /\ raised' = [raised EXCEPT ![call.inv] = "waitfail"]
    /\ midScan' = [midScan EXCEPT ![call.inv] = MidScan(call.inv)]
    /\ call' = [call EXCEPT !.pc = "failed"]
    /\ UNCHANGED <<worker, queues, args, returned, escaped, evars>>

\* parser_thread.join(0.1) ends, the thread finished or not, and the
\* timed-out result is returned
ReturnTimedOut ==
    /\ call.pc = "timedout"
    /\ returned' = [returned EXCEPT ![call.inv] =
           Append(@, TimeoutOutcome(args[call.inv].timeout.tenths))]
    /\ call' = [call EXCEPT !.pc = "idle"]
    /\ UNCHANGED <<stop_parsing_event, worker, queues, args, raised, midScan, escaped, evars>>

\* parser_thread.join(0.1) ends and the error result is returned
ReturnFailed ==
    /\ call.pc = "failed"
    /\ returned' = [returned EXCEPT ![call.inv] = Append(@, UnexpectedOutcome(TxtBadTimeout))]
    /\ call' = [call EXCEPT !.pc = "idle"]
    /\ UNCHANGED <<stop_parsing_event, worker, queues, args, raised, midScan, escaped, evars>>

CallerStep ==
    \/ Invoke
    \/ StartFail
    \/ Start
    \/ Get
    \/ TimeoutElapsed
    \/ SetOnTimeout
    \/ WaitFail
    \/ SetOnFail
    \/ ReturnTimedOut
    \/ ReturnFailed

Next ==
    \/ CallerStep
    \/ \E w \in Invocations : WorkerStep(w)

Spec == HInit /\ [][Next]_vars

(***************************************************************************)
(* The extraction of the credentials: the loop at the top of a frame of    *)
(* main().                                                                 *)
(***************************************************************************)
\* ("Byte", "0x06")
Tok06 == [type |-> "Byte", val |-> <<48, 120, 48, 54>>]

\* ("Byte", "0x00")
Tok00 == [type |-> "Byte", val |-> <<48, 120, 48, 48>>]

\* what str.strip() removes, among the code points below 256
IsSpace(c) == c \in {9, 10, 11, 12, 13, 28, 29, 30, 31, 32, 133, 160}

\* \w of re for an ASCII code point
IsWord(c) == (c >= 48 /\ c <= 57) \/ (c >= 65 /\ c <= 90) \/ (c >= 97 /\ c <= 122) \/ c = 95

RECURSIVE LStrip(_)
LStrip(t) == IF t # <<>> /\ IsSpace(Head(t)) THEN LStrip(Tail(t)) ELSE t

RECURSIVE RStrip(_)
RStrip(t) == IF t # <<>> /\ IsSpace(t[Len(t)]) THEN RStrip(SubSeq(t, 1, Len(t) - 1)) ELSE t

\* clean_string(s) of a str: str(s).replace('\x00', '').strip()
clean_string(t) == RStrip(LStrip(SelectSeq(t, LAMBDA c : c # 0)))

RECURSIVE StripLeadingNonWord(_)
\* re.sub(r'^\W+', '', s)
StripLeadingNonWord(t) ==
    IF t # <<>> /\ ~IsWord(Head(t)) THEN StripLeadingNonWord(Tail(t)) ELSE t

\* the value taken from a token: clean_string, then the re.sub
CleanValue(t) == StripLeadingNonWord(clean_string(t))

\* content[i], i counted from 0 as in the program
Item(c, i) == c[i + 1]

\* item i is the String token of the label
IsLabel(c, i, label) == Item(c, i).type = "String" /\ Item(c, i).val = label

\* the if of the 3-token sequence after item i
Motif3(c, i) ==
    /\ i + 3 < Len(c)
    /\ Item(c, i + 1) = Tok06
    /\ Item(c, i + 2).type = "String"
    /\ Item(c, i + 3) = Tok00

\* the elif of the 4-token sequence after item i
Motif4(c, i) ==
    /\ i + 4 < Len(c)
    /\ Item(c, i + 1) = Tok06
    /\ Item(c, i + 2).type = "Byte"
    /\ Item(c, i + 3).type = "String"
    /\ Item(c, i + 4) = Tok00

\* a password kept once it has been found
PasswordKeepFirst(cur, cand) == IF cur = TxtNotFound THEN cand ELSE cur

\* extracted_password = <the cleaned value>
PasswordAssign(cur, cand) == cand

\* extracted_password after iteration i
PasswordAfter(c, i, cur) ==
    IF IsLabel(c, i, TxtPassword)
    THEN IF Motif3(c, i) THEN PasswordAssign(cur, CleanValue(Item(c, i + 2).val))
         ELSE IF Motif4(c, i) THEN PasswordAssign(cur, CleanValue(Item(c, i + 3).val))
         ELSE cur
    ELSE cur

\* if "@" in potential_email and "." in potential_email
EmailAccepted(t) == (\E j \in 1 .. Len(t) : t[j] = 64) /\ (\E j \in 1 .. Len(t) : t[j] = 46)

\* the candidate assigned with no test
EmailAssignAlways(cur, cand) == cand

\* extracted_email after the assignment guarded by the if
EmailAssign(cur, cand) == IF EmailAccepted(cand) THEN cand ELSE cur

\* extracted_email after iteration i
EmailAfter(c, i, cur) ==
    IF IsLabel(c, i, TxtEmail)
    THEN IF Motif3(c, i) THEN EmailAssign(cur, CleanValue(Item(c, i + 2).val))
         ELSE IF Motif4(c, i) THEN EmailAssign(cur, CleanValue(Item(c, i + 3).val))
         ELSE cur
    ELSE cur

\* the bytes of one label occurrence in a file: the label, then a marker
\* sequence around the value
Occurrence(label, shape, value) ==
    label \o ( CASE shape = "m3" -> <<6>> \o value \o <<0>>
                 [] shape = "m4" -> <<6, 1>> \o value \o <<0>>
                 [] shape = "open" -> <<6>> \o value \o <<2>>
                 [] OTHER -> <<0>> )

\* the values of the extraction specification: "p1", " !q2", "a@b.c", "ab"
\* and ".@x", which holds "@" and "." only until it is cleaned
Values ==
    {<<112, 49>>, <<32, 33, 113, 50>>, <<97, 64, 98, 46, 99>>, <<97, 98>>, <<46, 64, 120>>}

Occurrences ==
    {Occurrence(l, sh, v) : l \in {TxtPassword, TxtEmail},
                            sh \in {"m3", "m4", "open", "none"}, v \in Values}

\* the files of the extraction specification: up to MaxOcc occurrences
EFiles == {Flatten(os) : os \in BSeq(Occurrences, MaxOcc)}

\* a frame begins with the content of a completely parsed file selected
EInit ==
    /\ \E d \in EFiles : content = ScanAll(DataToProcess(d, DefaultMaxBytes))
    /\ idx = 0
    /\ extracted_email = TxtNotFound
    /\ extracted_password = TxtNotFound
    /\ ui = IdleUI
    /\ stop_parsing_event = FALSE
    /\ worker = [w \in Invocations |-> IdleWorker]
    /\ queues = [q \in Invocations |-> <<>>]
    /\ call = IdleCall
    /\ args = [i \in Invocations |-> NoArgs]
    /\ returned = [i \in Invocations |-> <<>>]
    /\ raised = [i \in Invocations |-> "no"]
    /\ midScan = [i \in Invocations |-> FALSE]
    /\ escaped = [i \in Invocations |-> FALSE]

\* one iteration of for i in range(len(content))
ExtractStep ==
    /\ idx < Len(content)
    /\ extracted_password' = PasswordAfter(content, idx, extracted_password)
    /\ extracted_email' = EmailAfter(content, idx, extracted_email)
    /\ idx' = idx + 1
    /\ UNCHANGED <<content, ui, hvars>>

ENext == ExtractStep

SpecExtract == EInit /\ [][ENext]_vars

(***************************************************************************)
(* The main loop of main(): a frame extracts the credentials, handles the  *)
(* batch of events and draws.                                              *)
(***************************************************************************)
RECURSIVE ExtractFrom(_, _, _, _)
\* the whole loop for i in range(len(content)), from iteration i on:
\* <<extracted_email, extracted_password>>
ExtractFrom(c, i, em, pw) ==
    IF i >= Len(c) THEN <<em, pw>>
    ELSE ExtractFrom(c, i + 1, EmailAfter(c, i, em), PasswordAfter(c, i, pw))

ExtractAll(c) == ExtractFrom(c, 0, TxtNotFound, TxtNotFound)

\* "Email: "
TxtEmailLabel == <<69, 109, 97, 105, 108, 58, 32>>
\* "Password: "
TxtPasswordLabel == <<80, 97, 115, 115, 119, 111, 114, 100, 58, 32>>
\* "..."
TxtEllipsis == <<46, 46, 46>>

\* the width in pixels of one character of the font of the window
\* specification
GlyphWidth == 10

\* font.size(text)[0] for that font
FontSize(text) == GlyphWidth * Len(text)

\* the while loop of truncate_text from left, right and best on
RECURSIVE TruncateSearch(_, _, _, _, _)
TruncateSearch(text, max_width, left, right, best) ==
    IF left > right THEN best
    ELSE LET mid == (left + right) \div 2
             test_text == SubSeq(text, 1, mid) \o TxtEllipsis
         IN  IF FontSize(test_text) <= max_width
             THEN TruncateSearch(text, max_width, mid + 1, right, test_text)
             ELSE TruncateSearch(text, max_width, left, mid - 1, best)

\* truncate_text(text, max_width, font)
truncate_text(text, max_width) ==
    IF FontSize(text) <= max_width THEN text
    ELSE LET best == TruncateSearch(text, max_width, 0, Len(text), <<>>)
         IN  IF best # <<>> THEN best ELSE TxtEllipsis

\* the geometry of main
content_panel_x == FILE_LIST_WIDTH + PADDING
email_label_y == PADDING + PADDING + 10
password_label_y == email_label_y + LINE_HEIGHT + 30
button_x == content_panel_x + PADDING + LABEL_WIDTH + 15
file_list_scrollbar_x == FILE_LIST_WIDTH - SCROLLBAR_WIDTH - SCROLLBAR_PADDING
file_list_view_height == SCREEN_HEIGHT - 2 * PADDING
total_file_height == NumFiles * LINE_HEIGHT
max_file_scroll == Max(0, NumFiles * LINE_HEIGHT - (SCREEN_HEIGHT - 2 * PADDING))

\* pygame.Rect(rx, ry, w, h).collidepoint(x, y)
collidepoint(rx, ry, w, h, x, y) ==
    /\ rx <= x /\ x < rx + w
    /\ ry <= y /\ y < ry + h

\* file_list_thumb_height
file_list_thumb_height ==
    Max(MinThumbHeight,
        FFloorDivInt(FMulInt(FDivInt(FInt(file_list_view_height), total_file_height),
                             file_list_view_height), 1))

\* file_list_thumb_y = PADDING + (offset / total_file_height) * file_list_view_height
file_list_thumb_y(offset) ==
    FAdd(FInt(PADDING),
         FMulInt(FDivInt(offset, total_file_height), file_list_view_height))

\* lo <= v <= hi
FBetween(lo, v, hi) == ~FLess(v, lo) /\ ~FLess(hi, v)

\* file_list_thumb_y <= y <= file_list_thumb_y + file_list_thumb_height
OnThumb(offset, y) ==
    \E thumb_y \in {file_list_thumb_y(offset)} :
        FBetween(thumb_y, FInt(y), FAdd(thumb_y, FInt(file_list_thumb_height)))

\* int((y - PADDING + file_list_scroll_offset) // LINE_HEIGHT)
clicked_index(offset, y) ==
    FFloorDivInt(FAdd(FInt(y - PADDING), offset), LINE_HEIGHT)

\* row i is drawn: the loop over the rows neither skips it nor has stopped
\* before it
RowDrawn(offset, i) ==
    /\ i >= 0 /\ i < NumFiles
    /\ FBetween(offset, FInt(i * LINE_HEIGHT), FAdd(offset, FInt(file_list_view_height)))

\* the first file of the list holds an e-mail address too long for its
\* label, the files at the other even places one that fits, the files at
\* the odd places a password
LongEmail ==
    <<97, 98, 99, 100, 101, 102, 103, 104, 105, 106, 107, 108, 109, 110, 111,
      112, 64, 113, 46, 114, 115>>

UFileData(i) ==
    IF i = 0 THEN Occurrence(TxtEmail, "m3", LongEmail)
    ELSE IF i % 2 = 0 THEN Occurrence(TxtEmail, "m3", <<97, 64, 98, 46, 99>>)
    ELSE Occurrence(TxtPassword, "m4", <<113, 50>>)

\* the path of file i of the list: "p" and the index
UPath(i) == <<112>> \o DecStr(i)

\* file i of the list as open() may find it when it is selected: readable,
\* or, at the odd places, removed since the list was built
UFiles(i) ==
    {[path |-> UPath(i), err |-> e, data |-> UFileData(i)] :
        e \in IF i % 2 = 1 THEN {NoError, ENOENT} ELSE {NoError}}

\* the MOUSEBUTTONDOWN events of the window specification, <<button, x, y>>:
\* button 1 on a row (row 0, or row 1 of the scrolled list), on the thumb of
\* the scrollbar, on "Copy E-Mail" and on "Copy Password", and the wheel
\* (buttons 4 and 5) over the file list
MouseDowns ==
    {<<1, 100, 28>>, <<1, 190, 54>>, <<1, 530, 54>>, <<1, 530, 106>>,
     <<4, 100, 28>>, <<5, 100, 28>>}

\* the MOUSEMOTION event of the window specification, <<x, y>>: down the
\* scrollbar, which drags a pressed thumb to the end of the list
MouseMoves == {<<190, 106>>}

\* the milliseconds between two frames, clock.tick(60), of the window
\* specification
FrameTimes == {1000}

\* main() has built the file list and the buttons
UInit ==
    /\ ui = [IdleUI EXCEPT !.pc = "start"]
    /\ content = <<>>
    /\ idx = 0
    /\ extracted_email = TxtNotFound
    /\ extracted_password = TxtNotFound
    /\ stop_parsing_event = FALSE
    /\ worker = [w \in Invocations |-> IdleWorker]
    /\ queues = [q \in Invocations |-> <<>>]
    /\ call = IdleCall
    /\ args = [i \in Invocations |-> NoArgs]
    /\ returned = [i \in Invocations |-> <<>>]
    /\ raised = [i \in Invocations |-> "no"]
    /\ midScan = [i \in Invocations |-> FALSE]
    /\ escaped = [i \in Invocations |-> FALSE]

\* the first file of the list is not named "sol": nothing is selected
UNoAutoSelect ==
    /\ ui.pc = "start"
    /\ ui' = [ui EXCEPT !.pc = "extract"]
    /\ UNCHANGED <<content, idx, extracted_email, extracted_password, hvars>>

\* the first file of the list is named "sol": it is selected and
\* parse_sol_content_with_timeout is called for it
UAutoSelect ==
    /\ ui.pc = "start"
    /\ \E f \in UFiles(0) : InvokeWith(f, Seconds(DefaultTimeout), DefaultMaxBytes)
    /\ ui' = [ui EXCEPT !.pc = "autoparse", !.selected = 0]
    /\ UNCHANGED <<content, idx, extracted_email, extracted_password>>

\* the top of a frame: the credentials are extracted anew and, with a file
\* selected, set as the copy text of the buttons
UExtract ==
    /\ ui.pc = "extract"
    /\ IF ui.selected # -1
       THEN LET f == ExtractAll(content)
            IN  /\ extracted_email' = f[1]
                /\ extracted_password' = f[2]
                /\ idx' = Len(content)
                /\ ui' = [ui EXCEPT !.pc = "events",
                                    !.email_copy_button.copy_text = f[1],
                                    !.password_copy_button.copy_text = f[2],
                                    !.drawn = NoDraw]
       ELSE /\ extracted_email' = TxtNotFound
            /\ extracted_password' = TxtNotFound
            /\ idx' = idx
            /\ ui' = [ui EXCEPT !.pc = "events", !.drawn = NoDraw]
    /\ UNCHANGED <<content, hvars>>

\* event.type == pygame.QUIT: running = False; the events left and the frame
\* are still done
UQuit ==
    /\ ui.pc = "events"
    /\ ui' = [ui EXCEPT !.running = FALSE]
    /\ UNCHANGED <<content, idx, extracted_email, extracted_password, hvars>>

\* Button.handle_event for a MOUSEBUTTONDOWN of button b at (x, y) on the
\* button at height ry: pyperclip.copy(copy_text) copies (copies = TRUE) or
\* raises PyperclipException
ButtonDown(btn, ry, b, x, y, copies) ==
    IF b = 1 /\ collidepoint(button_x, ry, button_width, button_height, x, y)
       /\ btn.copy_text # <<>> /\ copies
    THEN [btn EXCEPT !.copied_message_timer = copied_message_duration]
    ELSE btn

\* what the clipboard holds after that event; content records
\* current_parsed_content at this moment
ClipboardDown(clip, kind, btn, ry, b, x, y, copies) ==
    IF b = 1 /\ collidepoint(button_x, ry, button_width, button_height, x, y)
       /\ btn.copy_text # <<>> /\ copies
    THEN [kind |-> kind, text |-> btn.copy_text, content |-> content]
    ELSE clip

\* whether pyperclip.copy copies or raises, where the event makes a button
\* call it
CopyResults(b, x, y) ==
    IF \E ry \in {email_label_y, password_label_y} :
          b = 1 /\ collidepoint(button_x, ry, button_width, button_height, x, y)
    THEN BOOLEAN ELSE {TRUE}

\* the mouse wheel part of the MOUSEBUTTONDOWN branch
WheelOffset(offset, b, x) ==
    IF b = 4 /\ 0 <= x /\ x <= FILE_LIST_WIDTH
    THEN FMax0(FSub(offset, FInt(LINE_HEIGHT * WheelRows)))
    ELSE IF b = 5 /\ 0 <= x /\ x <= FILE_LIST_WIDTH
    THEN FMin(FInt(max_file_scroll), FAdd(offset, FInt(LINE_HEIGHT * WheelRows)))
    ELSE offset

\* the event is in the file list
InFileList(x, y) ==
    /\ 0 <= x /\ x <= FILE_LIST_WIDTH
    /\ PADDING <= y /\ y <= SCREEN_HEIGHT - PADDING

\* the event is in the file list, the list scrolls and the event is on the
\* thumb of the scrollbar
ThumbPressed(offset, x, y) ==
    /\ InFileList(x, y)
    /\ total_file_height > file_list_view_height
    /\ file_list_scrollbar_x <= x
    /\ x <= file_list_scrollbar_x + SCROLLBAR_WIDTH
    /\ OnThumb(offset, y)

\* the window after the buttons, the scrollbar (thumb: the event is on
\* its thumb) and the wheel have handled the event
Pressed(b, x, y, copies, thumb) ==
    [ui EXCEPT
        !.email_copy_button = ButtonDown(@, email_label_y, b, x, y, copies),
        !.password_copy_button = ButtonDown(@, password_label_y, b, x, y, copies),
        !.clipboard =
            ClipboardDown(
                ClipboardDown(@, "email", ui.email_copy_button,
                              email_label_y, b, x, y, copies),
                "password", ui.password_copy_button,
                password_label_y, b, x, y, copies),
        !.file_list_scrolling = IF thumb THEN TRUE ELSE @,
        !.last_mouse_y = IF thumb THEN y ELSE @,
        !.file_list_scroll_offset = WheelOffset(@, b, x)]

\* the event selects no other file
UPress(u) ==
    /\ ui' = u
    /\ UNCHANGED <<content, idx, extracted_email, extracted_password, hvars>>

\* the event is on row clicked_index: if it is a row of the list and not the
\* selected one, it is selected and parse_sol_content_with_timeout is called
\* for its file
UPressRow(u, row) ==
    IF 0 <= row /\ row < NumFiles /\ ui.selected # row
    THEN /\ ui.selections < MaxSelections
         /\ \E f \in UFiles(row) :
                InvokeWith(f, Seconds(DefaultTimeout), DefaultMaxBytes)
         /\ ui' = [u EXCEPT !.pc = "parsing", !.selected = row, !.selections = @ + 1]
         /\ UNCHANGED <<content, idx, extracted_email, extracted_password>>
    ELSE UPress(u)

\* event.type == pygame.MOUSEBUTTONDOWN, button b at (x, y): the buttons
\* handle it; in the file list, if the list scrolls, on the thumb of the
\* scrollbar the drag begins, elsewhere button 1 selects the row; last the
\* wheel scrolls the list
UMouseButtonDown(b, x, y) ==
    /\ ui.pc = "events"
    /\ \E copies \in CopyResults(b, x, y) :
       \E thumb \in {ThumbPressed(ui.file_list_scroll_offset, x, y)} :
       \E u \in {Pressed(b, x, y, copies, thumb)} :
        IF /\ InFileList(x, y)
           /\ total_file_height > file_list_view_height
           /\ ~thumb
           /\ b = 1
        THEN \E row \in {clicked_index(ui.file_list_scroll_offset, y)} :
                UPressRow(u, row)
        ELSE UPress(u)

\* event.type == pygame.MOUSEBUTTONUP: file_list_scrolling = False
UMouseButtonUp ==
    /\ ui.pc = "events"
    /\ ui' = [ui EXCEPT !.file_list_scrolling = FALSE]
    /\ UNCHANGED <<content, idx, extracted_email, extracted_password, hvars>>

\* file_list_scroll_offset after a drag by delta_y
Dragged(offset, delta_y) ==
    FMax0(FMin(FAdd(offset,
                    FMulInt(FDivInt(FInt(delta_y), file_list_view_height),
                            total_file_height)),
               FInt(total_file_height - file_list_view_height)))

\* event.type == pygame.MOUSEMOTION at (x, y): the buttons note whether the
\* mouse is over them, and a drag of the thumb scrolls the list
UMouseMotion(x, y) ==
    /\ ui.pc = "events"
    /\ LET delta_y == y - ui.last_mouse_y
           dragged == ui.file_list_scrolling
                      /\ total_file_height > file_list_view_height
       IN  ui' = [ui EXCEPT
                    !.email_copy_button.is_hovered =
                        collidepoint(button_x, email_label_y,
                                     button_width, button_height, x, y),
                    !.password_copy_button.is_hovered =
                        collidepoint(button_x, password_label_y,
                                     button_width, button_height, x, y),
                    !.last_mouse_y = IF ui.file_list_scrolling THEN y ELSE @,
                    !.file_list_scroll_offset =
                        IF dragged
                        THEN Dragged(@, delta_y)
                        ELSE @]
    /\ UNCHANGED <<content, idx, extracted_email, extracted_password, hvars>>

\* the steps of the calling thread inside the call made for the selection
UParseStep ==
    /\ ui.pc \in {"autoparse", "parsing"}
    /\ \/ StartFail
       \/ Start
       \/ Get
       \/ TimeoutElapsed
       \/ SetOnTimeout
       \/ ReturnTimedOut

\* the call returns: current_parsed_content is assigned
UAssign ==
    /\ ui.pc \in {"autoparse", "parsing"}
    /\ call.pc = "idle"
    /\ ~escaped[call.inv]
    /\ content' = returned[call.inv][1].tokens
    /\ ui' = [ui EXCEPT !.pc = IF ui.pc = "autoparse" THEN "extract" ELSE "events"]
    /\ UNCHANGED <<idx, extracted_email, extracted_password, hvars>>

\* the call ends by the exception of parser_thread.start(): nothing catches
\* it and main ends
UCrash ==
    /\ ui.pc \in {"autoparse", "parsing"}
    /\ call.pc = "idle"
    /\ escaped[call.inv]
    /\ ui' = [ui EXCEPT !.pc = "crashed"]
    /\ UNCHANGED <<content, idx, extracted_email, extracted_password, hvars>>

\* if timer < 0: timer = 0
NotBelowZero(t) == IF FLess(t, FZero) THEN FZero ELSE t

\* Button.update(dt) with dt = ms / 1000.0
ButtonUpdate(btn, ms) ==
    IF FPositive(btn.copied_message_timer)
    THEN [btn EXCEPT !.copied_message_timer =
              NotBelowZero(FSub(@, FDivInt(FInt(ms), MillisPerSecond)))]
    ELSE btn

\* what the frame shows, the buttons being e and p: the rows of the file
\* list in view, with the highlight on the selected one if it is among
\* them, and, with a file selected, the two labels, cut to their width, and
\* the buttons with "Copied!" above while the timer runs; content records
\* current_parsed_content at this moment
Frame(e, p) ==
    IF ui.selected # -1
    THEN [shown |-> TRUE,
          highlight |->
              IF RowDrawn(ui.file_list_scroll_offset, ui.selected)
              THEN ui.selected ELSE -1,
          email |-> truncate_text(TxtEmailLabel \o extracted_email,
                                  LABEL_WIDTH - 10),
          password |-> truncate_text(TxtPasswordLabel \o extracted_password,
                                     LABEL_WIDTH - 10),
          email_copied |-> FPositive(e.copied_message_timer),
          password_copied |-> FPositive(p.copied_message_timer),
          content |-> content]
    ELSE NoDraw

\* the batch is done: the buttons are updated, then the frame is drawn; the
\* loop goes on while running
UDraw ==
    /\ ui.pc = "events"
    /\ \E dt \in FrameTimes :
       \E e \in {ButtonUpdate(ui.email_copy_button, dt)},
          p \in {ButtonUpdate(ui.password_copy_button, dt)} :
        ui' = [ui EXCEPT
                 !.pc = IF ui.running THEN "extract" ELSE "ended",
                 !.email_copy_button = e,
                 !.password_copy_button = p,
                 !.drawn = Frame(e, p)]
    /\ UNCHANGED <<content, idx, extracted_email, extracted_password, hvars>>

UNext ==
    \/ UNoAutoSelect
    \/ UAutoSelect
    \/ UExtract
    \/ UQuit
    \/ \E e \in MouseDowns : UMouseButtonDown(e[1], e[2], e[3])
    \/ UMouseButtonUp
    \/ \E e \in MouseMoves : UMouseMotion(e[1], e[2])
    \/ UParseStep
    \/ UAssign
    \/ UCrash
    \/ UDraw
    \/ \E w \in Invocations : WorkerStep(w)

SpecUI == UInit /\ [][UNext]_vars

(***************************************************************************)
(* Properties of the tokenizer.                                            *)
(***************************************************************************)
\* the first min(len(input), maxBytes) bytes of the input of thread w
TruncatedInput(w) ==
    LET d == worker[w].file.data
    IN  [i \in 1 .. Min(Len(d), worker[w].cap) |-> d[i]]

\* the outcome thread w has put, once it has
HasPut(w) == worker[w].pc = "done" /\ Len(worker[w].put) = 1

PutOf(w) == worker[w].put[1]

\* the value of one hexadecimal digit
HexValue(c) == IF c >= 97 THEN c - 87 ELSE c - 48

\* the bytes a token stands for
TokenBytes(t) ==
    IF t.type = "Byte" THEN <<16 * HexValue(t.val[3]) + HexValue(t.val[4])>> ELSE t.val

TokensBytes(toks) == Flatten([j \in 1 .. Len(toks) |-> TokenBytes(toks[j])])

\* the offset in the buffer of the first byte of token j
Offset(toks, j) == Len(TokensBytes(SubSeq(toks, 1, j - 1)))

\* d[s:e] is a maximal run of printable bytes
IsMaxRun(d, s, e) ==
    /\ s < e /\ e <= Len(d)
    /\ \A i \in (s + 1) .. e : IsPrintable(d[i])
    /\ s = 0 \/ ~IsPrintable(d[s])
    /\ e = Len(d) \/ ~IsPrintable(d[e + 1])

\* C4: whenever the signal is set while the tokenizer is still scanning, with
\* tokens still to emit, the tokenizer returns an interrupted outcome and
\* never a complete one.
C4_SignalMidScanInterrupts ==
    \A w \in Invocations :
        (HasPut(w) /\ midScan[w]) => PutOf(w).status = "Interrupted"

\* C6: in a complete outcome the tokens, taken in order, stand for exactly
\* the first min(len(input), maxBytes) bytes of the input, each byte once:
\* a Byte token for one byte of its value, a String token for the bytes of
\* its run.
C6_CompleteCoversTruncatedInput ==
    \A w \in Invocations :
        (HasPut(w) /\ PutOf(w).status = "Complete") =>
            /\ TokensBytes(PutOf(w).tokens) = TruncatedInput(w)
            /\ \A j \in 1 .. Len(PutOf(w).tokens) :
                  PutOf(w).tokens[j].type \in {"Byte", "String"}

\* a complete outcome of an input longer than the cap, with both kinds of token
C6_Witness ==
    \E w \in Invocations :
        /\ HasPut(w) /\ PutOf(w).status = "Complete"
        /\ worker[w].cap < Len(worker[w].file.data)
        /\ \E j \in 1 .. Len(PutOf(w).tokens) : PutOf(w).tokens[j].type = "String"
        /\ \E j \in 1 .. Len(PutOf(w).tokens) : PutOf(w).tokens[j].type = "Byte"

\* C7: in a complete outcome a maximal printable run of length 1 of the
\* truncated input is a Byte token, a maximal printable run of length 2 or
\* more is exactly one String token holding the run, no String token is
\* shorter than 2 and no two String tokens are adjacent.
C7_RunThreshold ==
    \A w \in Invocations :
        (HasPut(w) /\ PutOf(w).status = "Complete") =>
            LET d == TruncatedInput(w)
                toks == PutOf(w).tokens
            IN  /\ \A s \in 0 .. Len(d), e \in 0 .. Len(d) :
                      IsMaxRun(d, s, e) =>
                          \E j \in 1 .. Len(toks) :
                              /\ Offset(toks, j) = s
                              /\ toks[j] = IF e - s = 1
                                           THEN [type |-> "Byte", val |-> HexByte(d[s + 1])]
                                           ELSE [type |-> "String", val |-> Slice(d, s, e)]
                /\ \A j \in 1 .. Len(toks) :
                      toks[j].type = "String" => Len(toks[j].val) >= 2
                /\ \A j \in 1 .. (Len(toks) - 1) :
                      ~(toks[j].type = "String" /\ toks[j + 1].type = "String")

\* a complete outcome of an input with a run of length 1 and a run of length 2
C7_Witness ==
    \E w \in Invocations :
        /\ HasPut(w) /\ PutOf(w).status = "Complete"
        /\ LET d == TruncatedInput(w)
           IN  /\ \E s \in 0 .. Len(d) : IsMaxRun(d, s, s + 1)
               /\ \E s \in 0 .. Len(d) : IsMaxRun(d, s, s + 2)

\* C8: the tokens of an interrupted outcome are a prefix of the tokens of the
\* complete outcome for the same input and cap.
C8_InterruptedIsPrefix ==
    \A w \in Invocations :
        (HasPut(w) /\ PutOf(w).status = "Interrupted") =>
            IsPrefix(PutOf(w).tokens, ScanAll(TruncatedInput(w)))

\* an interruption after some tokens and before the last
C8_Witness ==
    \E w \in Invocations :
        /\ HasPut(w) /\ PutOf(w).status = "Interrupted"
        /\ Len(PutOf(w).tokens) > 0
        /\ Len(PutOf(w).tokens) < Len(ScanAll(TruncatedInput(w)))

(***************************************************************************)
(* Properties of the harness.                                              *)
(***************************************************************************)
\* invocation k has ended: it has returned, or an exception has left it
Ended(k) == k < call.inv \/ (k = call.inv /\ call.pc = "idle")

\* invocation k has returned
Finished(k) == Ended(k) /\ ~escaped[k]

\* text holds sub
Contains(text, sub) ==
    \E i \in 1 .. (Len(text) - Len(sub) + 1) : SubSeq(text, i, i + Len(sub) - 1) = sub

\* an errored outcome carrying one token that holds text
IsErrored(o, text) ==
    /\ o.status = "Error"
    /\ o.was_incomplete
    /\ Len(o.tokens) = 1
    /\ o.tokens[1].type = "Error"
    /\ Contains(o.tokens[1].val, text)

\* the thread of invocation k has been started
Started(k) == worker[k].pc # "idle"

C2_InterruptedOnlyIfTimedOut ==
    \A k \in Invocations :
        (HasPut(k) /\ PutOf(k).status = "Interrupted") => raised[k] = "timeout"

\* C2: with invocations one after the other, the thread of invocation k
\* returns Interrupted only if invocation k itself raised the signal, by
\* timing out or by failing while it waited; a signal raised by an earlier
\* invocation never interrupts it.
C2_InterruptedOnlyIfOwnSignal ==
    \A k \in Invocations :
        (HasPut(k) /\ PutOf(k).status = "Interrupted") =>
            raised[k] \in {"timeout", "waitfail"}

\* the thread of a later invocation is interrupted while the thread of an
\* earlier, timed-out invocation is still running
C2_Witness ==
    \E j \in Invocations, k \in Invocations :
        /\ j < k
        /\ raised[j] = "timeout"
        /\ worker[j].pc \in {"open", "loop", "body", "tail"}
        /\ HasPut(k) /\ PutOf(k).status = "Interrupted"

\* C3: the thread of a timed-out invocation finds the signal set at its
\* next check, also when a new invocation has begun in the meantime.
C3_AbandonedWorkerSeesSignal ==
    \A k \in Invocations :
        ( /\ raised[k] = "timeout"
          /\ worker[k].pc = "loop"
          /\ worker[k].k < Len(FindIter(worker[k].data)) )
        => stop_parsing_event

\* C5: a timed-out invocation returns an outcome flagged timed out, not
\* errored, whose token sequence is empty.
C5_TimedOutHasNoTokens ==
    \A k \in Invocations :
        (Finished(k) /\ raised[k] = "timeout") =>
            /\ returned[k][1].status = "Timed Out"
            /\ returned[k][1].tokens = <<>>

\* C9: every failure reaches the caller as an errored outcome with one token
\* describing it: a path that cannot be opened, a failure of the wait, and
\* any other failure inside the call; no invocation ends by an exception.
C9_FailuresBecomeOutcomes ==
    \A k \in Invocations :
        /\ ~escaped[k]
        /\ (Finished(k) /\ raised[k] = "waitfail") =>
              IsErrored(returned[k][1], TxtBadTimeout)
        /\ (Finished(k) /\ raised[k] = "no" /\ args[k].file.err # NoError) =>
              IsErrored(returned[k][1], OpenErrorText(args[k].file.path, args[k].file.err))
        /\ worker[k].pc = "done" => Len(worker[k].put) = 1

(***************************************************************************)
(* Properties of the extraction.                                           *)
(***************************************************************************)
\* the token at position j (from 1) is a "Password" label followed by the
\* 3-token or the 4-token sequence
PasswordMatchAt(c, j) ==
    /\ c[j] = [type |-> "String", val |-> TxtPassword]
    /\ \/ /\ j + 3 <= Len(c)
          /\ c[j + 1] = Tok06 /\ c[j + 2].type = "String" /\ c[j + 3] = Tok00
       \/ /\ j + 4 <= Len(c)
          /\ c[j + 1] = Tok06 /\ c[j + 2].type = "Byte"
          /\ c[j + 3].type = "String" /\ c[j + 4] = Tok00

\* the cleaned value of the occurrence matched at j
PasswordValueAt(c, j) ==
    CleanValue(IF c[j + 2].type = "String" THEN c[j + 2].val ELSE c[j + 3].val)

PasswordMatches(c) == {j \in 1 .. Len(c) : PasswordMatchAt(c, j)}

\* the loop has run over all of content
ExtractionDone == idx = Len(content)

\* C10 as stated: after the loop the password is the cleaned value of the
\* first "Password" occurrence that matches a sequence.
C10_FirstMatchWins ==
    (ExtractionDone /\ PasswordMatches(content) # {}) =>
        LET j == CHOOSE j \in PasswordMatches(content) :
                    \A j2 \in PasswordMatches(content) : j <= j2
        IN  extracted_password = PasswordValueAt(content, j)

\* C10: after the loop the password is the cleaned value of the last
\* "Password" occurrence that matches the 3-token or the 4-token sequence;
\* occurrences that match neither change nothing, and with no match the
\* password is "Not found".
C10_LastMatchWins ==
    ExtractionDone =>
        IF PasswordMatches(content) = {}
        THEN extracted_password = TxtNotFound
        ELSE LET j == CHOOSE j \in PasswordMatches(content) :
                         \A j2 \in PasswordMatches(content) : j2 <= j
             IN  extracted_password = PasswordValueAt(content, j)

\* the loop has run over two matching "Password" occurrences with different
\* cleaned values
C10_Witness ==
    /\ ExtractionDone
    /\ \E j \in PasswordMatches(content), j2 \in PasswordMatches(content) :
          /\ j < j2
          /\ PasswordValueAt(content, j) # PasswordValueAt(content, j2)

\* the token at position j (from 1) is an "Email" label followed by the
\* 3-token or the 4-token sequence
EmailMatchAt(c, j) ==
    /\ c[j] = [type |-> "String", val |-> TxtEmail]
    /\ \/ /\ j + 3 <= Len(c)
          /\ c[j + 1] = Tok06 /\ c[j + 2].type = "String" /\ c[j + 3] = Tok00
       \/ /\ j + 4 <= Len(c)
          /\ c[j + 1] = Tok06 /\ c[j + 2].type = "Byte"
          /\ c[j + 3].type = "String" /\ c[j + 4] = Tok00

\* the cleaned candidate of the occurrence matched at j
EmailValueAt(c, j) ==
    CleanValue(IF c[j + 2].type = "String" THEN c[j + 2].val ELSE c[j + 3].val)

\* the text holds "@" and "."
HasAtAndDot(t) == Contains(t, <<64>>) /\ Contains(t, <<46>>)

\* the matched occurrences among the first n tokens whose cleaned candidate
\* holds both
ValidEmailsBefore(c, n) ==
    {j \in 1 .. n : EmailMatchAt(c, j) /\ HasAtAndDot(EmailValueAt(c, j))}

\* C11: at every point of the loop the email is the cleaned candidate of the
\* last "Email" occurrence passed so far that matches the 3-token or the
\* 4-token sequence and whose cleaned text holds both "@" and "."; a
\* rejected candidate leaves the value held, a later valid one sets it, and
\* while none has passed the email is "Not found".
C11_EmailLastValidCandidate ==
    (idx <= Len(content)) =>
        LET valid == ValidEmailsBefore(content, idx)
        IN  IF valid = {}
            THEN extracted_email = TxtNotFound
            ELSE LET j == CHOOSE j \in valid : \A j2 \in valid : j2 <= j
                 IN  extracted_email = EmailValueAt(content, j)

\* the loop has run over a valid candidate and then over a matched
\* occurrence whose candidate was rejected: the valid one is still held
C11_Witness ==
    /\ ExtractionDone
    /\ \E j \in ValidEmailsBefore(content, Len(content)) :
          \E j2 \in 1 .. Len(content) :
              /\ j < j2
              /\ EmailMatchAt(content, j2)
              /\ ~HasAtAndDot(EmailValueAt(content, j2))
    /\ extracted_email # TxtNotFound

(***************************************************************************)
(* Properties of the window.                                               *)
(***************************************************************************)
\* C12: the text a copy button copied is the field extracted from the
\* content of the file selected when it was clicked, and the email and the
\* password drawn beside the highlighted file are the fields extracted from
\* the content of that file.
C12_FieldsOfSelectedFile ==
    /\ ui.clipboard.kind = "email" =>
          ui.clipboard.text = ExtractAll(ui.clipboard.content)[1]
    /\ ui.clipboard.kind = "password" =>
          ui.clipboard.text = ExtractAll(ui.clipboard.content)[2]
    /\ ui.drawn.shown =>
          /\ ui.drawn.email =
                truncate_text(TxtEmailLabel \o ExtractAll(ui.drawn.content)[1],
                              LABEL_WIDTH - 10)
          /\ ui.drawn.password =
                truncate_text(TxtPasswordLabel \o ExtractAll(ui.drawn.content)[2],
                              LABEL_WIDTH - 10)

=============================================================================
